---- MODULE Spec2Model ----
(***************************************************************************)
(* A model of the Rearc data quest pipeline:                               *)
(*   src/src/part1_sync_bls.py          list_remote_files, download, sync  *)
(*   src/src/part2_fetch_population.py  fetch_population_all_years, save   *)
(*   src/lambda_ingest/main.py          lambda_handler (ingest)            *)
(*   src/lambda_analytics/main.py       the three compute_* functions      *)
(*                                                                         *)
(* Abstractions.  A file's bytes are a number in Contents and md5_bytes is *)
(* a many-to-one map on them.  A file name is a number in Names whose      *)
(* numeric order is the lexicographic order of the names; DefaultName is   *)
(* "pr.data.0.Current".  The S3 key of a name is prefix + name, one to     *)
(* one, so the store is indexed by name.  A BLS value is an integer.       *)
(*                                                                         *)
(* Specifications.  Spec: the ingest handler, invoked again and again,     *)
(* download() taken as one step with the outcomes its loop can produce.    *)
(* SpecDownload: download() pass by pass.  SpecRace: two invocations of    *)
(* sync() at once.  SpecBest, SpecStats, SpecJoin: one analytics function  *)
(* each, on every input within the bounds.  SpecPop: the population fetch  *)
(* and save.  The variables a specification does not use stay idle.        *)
(***************************************************************************)
EXTENDS Integers, Sequences, FiniteSets, TLC

VARIABLES
    \* ---- ingest handler, one invocation at a time (Spec)
    remote,      \* name -> bytes currently served by the BLS site
    store,       \* name -> object stored at the key of that name, or Absent
    pc,          \* where the ingest handler is
    files,       \* sync: the list returned by list_remote_files
    idx,         \* sync: 1-based position of the for-loop in files
    blob,        \* sync: the downloaded bytes
    head,        \* sync: the result of the head_object probe, or Absent
    startStore,  \* history: store as it was when the invocation started
    runPuts,     \* history: name -> put_object calls of this invocation
    touched,     \* history: name -> calls made for it in this invocation
    headErr,     \* history: names whose head_object raised in this invocation
    failedAt,    \* history: the call that raised, or None
    popOps,      \* history: population calls made in this invocation
    \* ---- download() alone, with its full trace (SpecDownload)
    d_pc, d_i, d_resp, d_log, d_ret,
    \* ---- two concurrent sync() invocations on one file (SpecRace)
    r_remote, r_store, r_pc, r_i, r_blob, r_head, r_puts,
    \* ---- analytics functions (SpecBest, SpecStats, SpecJoin)
    bls_rows, pop_by_year, a_pc, a_best, a_stats, a_joined,
    \* ---- population fetcher (SpecPop)
    api_resp, p_pc, p_rows, p_saved

syncVars == <<remote, store, pc, files, idx, blob, head,
              startStore, runPuts, touched, headErr, failedAt, popOps>>
downloadVars == <<d_pc, d_i, d_resp, d_log, d_ret>>
raceVars == <<r_remote, r_store, r_pc, r_i, r_blob, r_head, r_puts>>
aggVars == <<bls_rows, pop_by_year, a_pc, a_best, a_stats, a_joined>>
popVars == <<api_resp, p_pc, p_rows, p_saved>>
vars == <<syncVars, downloadVars, raceVars, aggVars, popVars>>

(***************************************************************************)
(* Bounds of the model.                                                    *)
(***************************************************************************)
MaxFiles == 2
MaxContent == 2
DigestMod == 2

Names == 1..MaxFiles
Contents == 0..MaxContent

None == "None"

\* No object at a key; also what sync's `head` is after a failed probe.
Absent == [exists |-> FALSE]

\* A stored object: its body and the local_md5 entry of its metadata
\* (None when the metadata has no such entry).
Object(body, md5) == [exists |-> TRUE, body |-> body, local_md5 |-> md5]

(***************************************************************************)
(* part1_sync_bls.py                                                       *)
(***************************************************************************)
DefaultName == 1

\* The statuses the servers answer with in the model: success, a success
\* that is not 200, a client error, and retryable ones.
Statuses == {200, 204, 404, 429, 503}

Retryable == {403, 429, 500, 502, 503, 504}

MaxAttempts == 6

\* requests.Response.raise_for_status: raises HTTPError for 4xx and 5xx only.
raise_for_status(status) == 400 <= status /\ status < 600

RECURSIVE SortedSeq(_)
SortedSeq(S) ==
    IF S = {} THEN <<>>
    ELSE LET m == CHOOSE x \in S : \A y \in S : x <= y
         IN <<m>> \o SortedSeq(S \ {m})

\* sorted(set(files)) or ["pr.data.0.Current"], hrefs the regex's matches
list_remote_files(hrefs) ==
    IF hrefs = {} THEN <<DefaultName>> ELSE SortedSeq(hrefs)

\* the backoff with a linear delay in place of the exponential one
Pow2_linear(n) == 2 * n

\* line 26: 2 ** i
Pow2(n) == 2 ^ n

\* One pass of download's loop body (lines 22-28) on a response of `status`
\* at loop index n: return the body, sleep and continue, raise, or fall off
\* the end of the body into the next pass.
download_iter(n, status) ==
    IF status = 200 THEN [kind |-> "return", sleep |-> 0]
    ELSE IF status \in Retryable THEN [kind |-> "continue", sleep |-> Pow2(n)]
    ELSE IF raise_for_status(status) THEN [kind |-> "raise", sleep |-> 0]
    ELSE [kind |-> "continue", sleep |-> 0]

\* Line 29, after the loop: raise on the last response, else return None.
download_after(status) ==
    IF raise_for_status(status) THEN "raise" ELSE "return_none"

\* hashlib.md5(b).hexdigest(): a string, and many bodies share one
md5_bytes(b) == ToString(b % DigestMod)

\* line 47 without the fingerprint comparison: every run uploads
needs_upload_always(h, md5) == TRUE

\* line 47 without the fingerprint comparison: only a missing key uploads
needs_upload_if_absent(h, md5) == ~h.exists

\* line 47
needs_upload(h, md5) == ~h.exists \/ h.local_md5 # md5

\* an upload whose metadata is not the fingerprint of the uploaded body
put_object_md5_of_name(body, md5) == Object(body, md5_bytes(DefaultName))

\* lines 50-56: the object put_object leaves at the key
put_object(body, md5) == Object(body, md5)

ZeroPuts == [k \in Names |-> 0]
NoCalls == [k \in Names |-> {}]

Touch(k, op) == [touched EXCEPT ![k] = @ \cup {op}]

InitSync ==
    /\ remote \in [Names -> Contents]
    /\ store \in [Names -> {Absent, Object(0, None)}]
    /\ pc = "idle"
    /\ files = <<>>
    /\ idx = 0
    /\ blob = None
    /\ head = Absent
    /\ startStore = store
    /\ runPuts = ZeroPuts
    /\ touched = NoCalls
    /\ headErr = {}
    /\ failedAt = None
    /\ popOps = {}

IdleSync ==
    /\ remote = <<>> /\ store = <<>> /\ pc = "off" /\ files = <<>>
    /\ idx = 0 /\ blob = None /\ head = Absent
    /\ startStore = <<>> /\ runPuts = <<>> /\ touched = <<>>
    /\ headErr = {} /\ failedAt = None /\ popOps = {}

IdleDownload ==
    d_pc = "off" /\ d_i = 0 /\ d_resp = {} /\ d_log = <<>> /\ d_ret = None

IdleRace ==
    /\ r_remote = 0 /\ r_store = Absent /\ r_pc = <<>> /\ r_i = <<>>
    /\ r_blob = <<>> /\ r_head = <<>> /\ r_puts = <<>>

IdleAgg ==
    /\ bls_rows = <<>> /\ pop_by_year = <<>> /\ a_pc = "off"
    /\ a_best = <<>> /\ a_stats = <<>> /\ a_joined = <<>>

IdlePop ==
    api_resp = <<>> /\ p_pc = "off" /\ p_rows = <<>> /\ p_saved = <<>>

notSync == <<downloadVars, raceVars, aggVars, popVars>>

\* An exception leaving a call: sync has no try/except around
\* list_remote_files, download, md5_bytes or put_object, and lambda_handler
\* has none around sync_bls or the population calls, so the invocation ends.
\* (The first definition is the handler catching the error and going on
\* to the population step.)
Raise_handler_continues(at) == pc' = "population" /\ failedAt' = at

Raise(at) == pc' = "failed" /\ failedAt' = at

\* lambda_handler up to sync's call of list_remote_files (lines 13-18, 36)
Invoke ==
    /\ pc = "idle"
    /\ startStore' = store
    /\ runPuts' = ZeroPuts
    /\ touched' = NoCalls
    /\ headErr' = {}
    /\ popOps' = {}
    /\ blob' = None /\ head' = Absent
    /\ \E status \in {200, 404}, hrefs \in SUBSET Names :
         IF raise_for_status(status)
         THEN /\ Raise("list")
              /\ files' = <<>> /\ idx' = 0
         ELSE /\ pc' = "download" /\ failedAt' = None
              /\ files' = list_remote_files(hrefs) /\ idx' = 1
    /\ UNCHANGED <<remote, store>>
    /\ UNCHANGED notSync

\* sync's for-loop moving on after a file (line 37), or sync returning
AfterFile ==
    IF idx < Len(files)
    THEN pc' = "download" /\ idx' = idx + 1
    ELSE pc' = "population" /\ idx' = idx

\* What a call of download can end in, from loop index n on: the body, a
\* raise, or None (the loop and line 29 passed without raising).
RECURSIVE download_from(_)
download_from(n) ==
    UNION {LET r == download_iter(n, status)
           IN CASE r.kind = "return" -> {"content"}
                [] r.kind = "raise" -> {"raise"}
                [] r.kind = "continue" /\ n + 1 < MaxAttempts ->
                       download_from(n + 1)
                [] OTHER -> {download_after(status)}
           : status \in Statuses}

DownloadOutcomes == download_from(0)

\* lines 38-42: download, and md5_bytes of what it returned
download ==
    /\ pc = "download"
    /\ touched' = Touch(files[idx], "get")
    /\ \E out \in DownloadOutcomes :
         CASE out = "content" ->
                  /\ blob' = remote[files[idx]]
                  /\ pc' = "head" /\ failedAt' = failedAt
           [] out = "raise" -> Raise("download") /\ blob' = blob
           [] OTHER -> Raise("md5") /\ blob' = blob
    /\ UNCHANGED <<remote, store, files, idx, head, startStore, runPuts,
                   headErr, popOps>>
    /\ UNCHANGED notSync

\* lines 42-47, and lines 57-58 when no upload is needed
head_object ==
    /\ pc = "head"
    /\ touched' = Touch(files[idx], "head")
    /\ \E ok \in BOOLEAN :
         /\ head' = IF ok /\ store[files[idx]] # Absent
                    THEN store[files[idx]] ELSE Absent
         /\ headErr' = IF ok THEN headErr ELSE headErr \cup {files[idx]}
    /\ IF needs_upload(head', md5_bytes(blob))
       THEN pc' = "put" /\ idx' = idx
       ELSE AfterFile
    /\ UNCHANGED <<remote, store, files, blob, startStore, runPuts,
                   failedAt, popOps>>
    /\ UNCHANGED notSync

\* lines 48-56
upload ==
    /\ pc = "put"
    /\ touched' = Touch(files[idx], "put")
    /\ runPuts' = [runPuts EXCEPT ![files[idx]] = @ + 1]
    /\ \E ok \in BOOLEAN :
         IF ok
         THEN /\ store' = [store EXCEPT ![files[idx]] =
                              put_object(blob, md5_bytes(blob))]
              /\ AfterFile
              /\ failedAt' = failedAt
         ELSE /\ Raise("put")
              /\ UNCHANGED <<store, idx>>
    /\ UNCHANGED <<remote, files, blob, head, startStore, headErr,
                   popOps>>
    /\ UNCHANGED notSync

\* lambda_ingest/main.py lines 43-52: the population fetch and save
population ==
    /\ pc = "population"
    /\ \E rows \in {"raise", "empty", "rows"} :
         /\ popOps' = IF rows = "rows" THEN {"fetch", "save"} ELSE {"fetch"}
         /\ IF rows = "raise" THEN Raise("population")
            ELSE pc' = "done" /\ failedAt' = failedAt
    /\ UNCHANGED <<remote, store, files, idx, blob, head,
                   startStore, runPuts, touched, headErr>>
    /\ UNCHANGED notSync

\* The invocation ends: it returned {"ok": True} or its error propagated.
\* Its locals are gone, and the history of the invocation with them.
Return ==
    /\ pc \in {"done", "failed"}
    /\ pc' = "idle"
    /\ files' = <<>> /\ idx' = 0
    /\ blob' = None /\ head' = Absent
    /\ startStore' = store /\ runPuts' = ZeroPuts /\ touched' = NoCalls
    /\ headErr' = {} /\ failedAt' = None /\ popOps' = {}
    /\ UNCHANGED <<remote, store>>
    /\ UNCHANGED notSync

\* between invocations the BLS site publishes new bytes for a file
ChangeRemote ==
    /\ pc = "idle"
    /\ \E k \in Names, c \in Contents :
         /\ c # remote[k]
         /\ remote' = [remote EXCEPT ![k] = c]
    /\ UNCHANGED <<store, pc, files, idx, blob, head,
                   startStore, runPuts, touched, headErr, failedAt, popOps>>
    /\ UNCHANGED notSync

(***************************************************************************)
(* download() on its own, keeping the trace of its GETs and sleeps.        *)
(***************************************************************************)
Get(status) == [op |-> "GET", status |-> status]
Sleep(secs) == [op |-> "sleep", secs |-> secs]

InitDownload ==
    d_pc = "loop" /\ d_i = 0 /\ d_resp = {} /\ d_log = <<>> /\ d_ret = None

notDownload == <<syncVars, raceVars, aggVars, popVars>>

\* One pass of the loop of lines 21-28, and line 29 after the last pass.
download_pass ==
    /\ d_pc = "loop"
    /\ \E status \in Statuses :
         LET r == download_iter(d_i, status)
             last == d_i + 1 = MaxAttempts
         IN /\ d_resp' = {status}
            /\ d_log' = IF r.sleep > 0
                        THEN d_log \o <<Get(status), Sleep(r.sleep)>>
                        ELSE Append(d_log, Get(status))
            /\ CASE r.kind = "return" ->
                      d_pc' = "returned" /\ d_ret' = "content" /\ d_i' = d_i
                 [] r.kind = "raise" ->
                      d_pc' = "raised" /\ d_ret' = d_ret /\ d_i' = d_i
                 [] r.kind = "continue" /\ ~last ->
                      d_pc' = d_pc /\ d_ret' = d_ret /\ d_i' = d_i + 1
                 [] r.kind = "continue" /\ last ->
                      /\ d_i' = d_i /\ d_ret' = d_ret
                      /\ d_pc' = IF download_after(status) = "raise"
                                 THEN "raised" ELSE "returned"
    /\ UNCHANGED notDownload

(***************************************************************************)
(* Two sync() invocations working on the same file at once (overlapping    *)
(* triggers).  head_object and put_object are atomic steps of the store;   *)
(* the bytes served for the file do not change.                            *)
(***************************************************************************)
Procs == {1, 2}

InitRace ==
    /\ r_remote \in Contents
    /\ r_store \in {Absent, Object(r_remote, md5_bytes(r_remote))}
    /\ r_pc = [p \in Procs |-> "download"]
    /\ r_i = [p \in Procs |-> 0]
    /\ r_blob = [p \in Procs |-> None]
    /\ r_head = [p \in Procs |-> Absent]
    /\ r_puts = [p \in Procs |-> 0]

notRace == <<syncVars, downloadVars, aggVars, popVars>>

\* lines 38-42 in invocation p: one GET of download and what follows it
r_download(p) ==
    /\ r_pc[p] = "download"
    /\ \E status \in Statuses :
         LET r == download_iter(r_i[p], status)
             last == r_i[p] + 1 = MaxAttempts
         IN CASE r.kind = "return" ->
                   /\ r_blob' = [r_blob EXCEPT ![p] = r_remote]
                   /\ r_pc' = [r_pc EXCEPT ![p] = "head"]
                   /\ r_i' = [r_i EXCEPT ![p] = 0]
              [] r.kind = "continue" /\ ~last ->
                   /\ r_i' = [r_i EXCEPT ![p] = @ + 1]
                   /\ UNCHANGED <<r_pc, r_blob>>
              [] OTHER ->
                   /\ r_pc' = [r_pc EXCEPT ![p] = "failed"]
                   /\ UNCHANGED <<r_i, r_blob>>
    /\ UNCHANGED <<r_remote, r_store, r_head, r_puts>>
    /\ UNCHANGED notRace

\* lines 43-47 and 57-58 in invocation p
r_head_object(p) ==
    /\ r_pc[p] = "head"
    /\ r_head' = [r_head EXCEPT ![p] = r_store]
    /\ r_pc' = [r_pc EXCEPT ![p] =
                   IF needs_upload(r_store, md5_bytes(r_blob[p]))
                   THEN "put" ELSE "done"]
    /\ UNCHANGED <<r_remote, r_store, r_i, r_blob, r_puts>>
    /\ UNCHANGED notRace

\* lines 48-56 in invocation p
r_upload(p) ==
    /\ r_pc[p] = "put"
    /\ r_store' = put_object(r_blob[p], md5_bytes(r_blob[p]))
    /\ r_puts' = [r_puts EXCEPT ![p] = @ + 1]
    /\ r_pc' = [r_pc EXCEPT ![p] = "done"]
    /\ UNCHANGED <<r_remote, r_i, r_blob, r_head>>
    /\ UNCHANGED notRace

(***************************************************************************)
(* lambda_analytics/main.py: the three computations.  A string that the    *)
(* code takes apart (period) is a sequence of characters.  A dict is kept  *)
(* in insertion order, as Python keeps it.  An optional number is NoValue  *)
(* (Python's None) or Some(v).                                             *)
(***************************************************************************)
NoValue == [none |-> TRUE]
Some(v) == [none |-> FALSE, v |-> v]

\* a rational number num/den, den > 0
Ratio(num, den) == [none |-> FALSE, num |-> num, den |-> den]

Row(sid, period, year, value) ==
    [series_id |-> sid, period |-> period, year |-> year, value |-> value]

Q01 == <<"Q", "0", "1">>
Q02 == <<"Q", "0", "2">>
A01 == <<"A", "0", "1">>

\* str.startswith
startswith(str, prefix) ==
    Len(str) >= Len(prefix) /\ SubSeq(str, 1, Len(prefix)) = prefix

\* dict.get(key): the value, or None
dict_get(d, key) == IF key \in DOMAIN d THEN Some(d[key]) ELSE NoValue

\* d[key] = value on a dict kept as a function
dict_set(d, key, value) ==
    [k \in DOMAIN d \cup {key} |-> IF k = key THEN value ELSE d[k]]

\* ---- compute_population_stats (lines 58-71)
WindowStart == 2013
WindowStop == 2019

\* list(range(a, b))
range(a, b) == [n \in 1..(b - a) |-> a + n - 1]

\* line 61: [pop_by_year[y] for y in years if y in pop_by_year]
RECURSIVE pops_of(_, _)
pops_of(years, pop) ==
    IF years = <<>> THEN <<>>
    ELSE (IF Head(years) \in DOMAIN pop THEN <<pop[Head(years)]>> ELSE <<>>)
         \o pops_of(Tail(years), pop)

RECURSIVE sum(_)
sum(xs) == IF xs = <<>> THEN 0 ELSE Head(xs) + sum(Tail(xs))

\* the sample variance, dividing by n - 1
pvariance_sample(pops) ==
    LET n == Len(pops)
        total == sum(pops)
    IN Ratio(sum([k \in 1..n |-> (n * pops[k] - total) ^ 2]), n * n * (n - 1))

\* statistics.pstdev is the square root of statistics.pvariance, the exact
\* mean of the squared deviations from the mean: with mean = total/n,
\* sum((x - mean)^2) / n = sum((n*x - total)^2) / n^3.
pvariance(pops) ==
    LET n == Len(pops)
        total == sum(pops)
    IN Ratio(sum([k \in 1..n |-> (n * pops[k] - total) ^ 2]), n * n * n)

\* The result pair (mean_pop, std_pop); std_pop is held as its square.
compute_population_stats(pop) ==
    LET years == range(WindowStart, WindowStop)
        pops == pops_of(years, pop)
    IN IF Len(pops) < 2
       THEN [mean |-> NoValue, std_squared |-> NoValue]
       ELSE [mean |-> Ratio(sum(pops), Len(pops)),
             std_squared |-> pvariance(pops)]

\* ---- compute_best_years (lines 74-104)
\* line 83
is_quarter(period) == startswith(period, <<"Q">>)

key_index(d, key) ==
    IF \E n \in 1..Len(d) : d[n].key = key
    THEN CHOOSE n \in 1..Len(d) : d[n].key = key
    ELSE 0

\* line 86 on the defaultdict(float) `sums`, a sequence of items in
\* insertion order: sums[key] += value
add_to(d, key, value) ==
    LET n == key_index(d, key)
    IN IF n = 0 THEN Append(d, [key |-> key, total |-> 0 + value])
       ELSE [d EXCEPT ![n].total = @ + value]

\* lines 80-86
RECURSIVE sum_quarters(_, _)
sum_quarters(rows, sums) ==
    IF rows = <<>> THEN sums
    ELSE LET row == Head(rows)
         IN sum_quarters(Tail(rows),
                IF ~is_quarter(row.period) THEN sums
                ELSE add_to(sums, <<row.series_id, row.year>>, row.value))

\* line 91 with >= in place of >: a later tie displaces the pick
replaces_or_equal(best_years, series_id, total) ==
    series_id \notin DOMAIN best_years \/ total >= best_years[series_id][2]

\* line 91
replaces(best_years, series_id, total) ==
    series_id \notin DOMAIN best_years \/ total > best_years[series_id][2]

\* lines 89-92
RECURSIVE pick_best(_, _)
pick_best(items, best_years) ==
    IF items = <<>> THEN best_years
    ELSE LET series_id == Head(items).key[1]
             year == Head(items).key[2]
             total == Head(items).total
         IN pick_best(Tail(items),
                IF replaces(best_years, series_id, total)
                THEN dict_set(best_years, series_id, <<year, total>>)
                ELSE best_years)

compute_best_years(rows) == pick_best(sum_quarters(rows, <<>>), <<>>)

\* ---- compute_prs30006032_q01 (lines 107-133)
\* line 114 without the test of the period
selected_any_period(row) == row.series_id = "PRS30006032"

\* line 114
selected(row) == row.series_id = "PRS30006032" /\ row.period = Q01

RECURSIVE compute_prs30006032_q01(_, _)
compute_prs30006032_q01(rows, pop) ==
    IF rows = <<>> THEN <<>>
    ELSE LET row == Head(rows)
         IN (IF selected(row)
             THEN <<[series_id |-> row.series_id,
                     year |-> row.year,
                     period |-> row.period,
                     value |-> row.value,
                     Population |-> dict_get(pop, row.year)]>>
             ELSE <<>>)
            \o compute_prs30006032_q01(Tail(rows), pop)

\* ---- inputs of the model
MaxRows == 3
MaxJoinRows == 2
MaxPop == 2

SeqsUpTo(S, n) == UNION {[1..m -> S] : m \in 0..n}

PartialMaps(D, R) == UNION {[E -> R] : E \in SUBSET D}

BestRowSet ==
    {Row(sid, period, year, value) :
        sid \in {"S1", "S2"}, period \in {Q01, Q02, A01},
        year \in {2020, 2021}, value \in {-1, 1}}

JoinRowSet ==
    {Row(sid, period, year, value) :
        sid \in {"PRS30006032", "PRS30006031"}, period \in {Q01, Q02},
        year \in {2015, 2016}, value \in {3, 4}}

InitAgg(rowsets, popmaps) ==
    /\ bls_rows \in rowsets
    /\ pop_by_year \in popmaps
    /\ a_pc = "start"
    /\ a_best = <<>>
    /\ a_stats = [mean |-> NoValue, std_squared |-> NoValue]
    /\ a_joined = <<>>

notAgg == <<syncVars, downloadVars, raceVars, popVars>>

best_years ==
    /\ a_pc = "start"
    /\ a_best' = compute_best_years(bls_rows)
    /\ a_pc' = "done"
    /\ UNCHANGED <<bls_rows, pop_by_year, a_stats, a_joined>>
    /\ UNCHANGED notAgg

population_stats ==
    /\ a_pc = "start"
    /\ a_stats' = compute_population_stats(pop_by_year)
    /\ a_pc' = "done"
    /\ UNCHANGED <<bls_rows, pop_by_year, a_best, a_joined>>
    /\ UNCHANGED notAgg

prs30006032_q01 ==
    /\ a_pc = "start"
    /\ a_joined' = compute_prs30006032_q01(bls_rows, pop_by_year)
    /\ a_pc' = "done"
    /\ UNCHANGED <<bls_rows, pop_by_year, a_best, a_stats>>
    /\ UNCHANGED notAgg

(***************************************************************************)
(* part2_fetch_population.py.  A JSON value is tagged with its type; a     *)
(* JSON string is a sequence of characters; a JSON float is held as its    *)
(* whole part and its first decimal.  A record's missing key reads as      *)
(* null, as rec.get gives None for it.                                     *)
(***************************************************************************)
JInt(n) == [t |-> "int", v |-> n]
JFloat(whole, tenth) == [t |-> "float", whole |-> whole, tenth |-> tenth]
JStr(chars) == [t |-> "str", chars |-> chars]
JNull == [t |-> "null"]

\* the outcome of a conversion: a value, or an exception
Ok(v) == [ok |-> TRUE, v |-> v]
Fail == [ok |-> FALSE]

DigitChars == {"0", "1", "2", "3", "4", "5", "6", "7", "8", "9"}

digit_value(c) == CHOOSE d \in 0..9 : ToString(d) = c

RECURSIVE lstrip(_)
lstrip(chars) ==
    IF chars # <<>> /\ Head(chars) = " " THEN lstrip(Tail(chars)) ELSE chars

RECURSIVE rstrip(_)
rstrip(chars) ==
    IF chars # <<>> /\ chars[Len(chars)] = " "
    THEN rstrip(SubSeq(chars, 1, Len(chars) - 1)) ELSE chars

RECURSIVE digits_value(_)
digits_value(chars) ==
    IF chars = <<>> THEN 0
    ELSE 10 * digits_value(SubSeq(chars, 1, Len(chars) - 1))
         + digit_value(chars[Len(chars)])

\* int(str): surrounding blanks, an optional sign, then decimal digits only
int_of_str(chars) ==
    LET str == rstrip(lstrip(chars))
        signed == str # <<>> /\ Head(str) \in {"+", "-"}
        body == IF signed THEN Tail(str) ELSE str
    IN IF body = <<>> \/ \E n \in 1..Len(body) : body[n] \notin DigitChars
       THEN Fail
       ELSE Ok(IF signed /\ Head(str) = "-"
               THEN 0 - digits_value(body) ELSE digits_value(body))

\* Python's int(x): an int as it is, a float truncated, a string parsed,
\* TypeError for None
int(j) ==
    CASE j.t = "int" -> Ok(j.v)
      [] j.t = "float" -> Ok(j.whole)
      [] j.t = "str" -> int_of_str(j.chars)
      [] OTHER -> Fail

\* an element of the records list: a dict, or something without .get
Rec(year, pop) == [dict |-> TRUE, Year |-> year, Population |-> pop]
NotADict == [dict |-> FALSE]

\* lines 42-54: the rows one record adds
rows_of(rec) ==
    IF ~rec.dict THEN <<>>
    ELSE LET year == int(rec.Year)
         IN IF ~year.ok THEN <<>>
            ELSE IF rec.Population = JNull THEN <<>>
            ELSE LET pop_val == int(rec.Population)
                 IN IF ~pop_val.ok THEN <<>>
                    ELSE <<[year |-> year.v, population |-> pop_val.v]>>

\* lines 40-54
RECURSIVE collect(_)
collect(records) ==
    IF records = <<>> THEN <<>>
    ELSE rows_of(Head(records)) \o collect(Tail(records))

\* insertion of a row after every row whose year is not greater
RECURSIVE insert_by_year(_, _)
insert_by_year(row, sorted) ==
    IF sorted = <<>> THEN <<row>>
    ELSE IF row.year < Head(sorted).year THEN <<row>> \o sorted
    ELSE <<Head(sorted)>> \o insert_by_year(row, Tail(sorted))

RECURSIVE sort_by_year(_)
sort_by_year(rows) ==
    IF rows = <<>> THEN <<>>
    ELSE insert_by_year(rows[Len(rows)],
                        sort_by_year(SubSeq(rows, 1, Len(rows) - 1)))

\* line 57 left out
sorted_skipped(rows) == rows

\* line 57: sorted(rows, key=lambda x: x["year"]), a stable sort
sorted(rows) == sort_by_year(rows)

\* line 38: data.get("data", []) if isinstance(data, dict) else data
records_of(data) ==
    CASE data.shape = "list" -> data.items
      [] data.shape = "dict" -> data.items
      [] OTHER -> <<>>

\* lines 33-60 on a response that raise_for_status let through
fetch_population_all_years(data) == sorted(collect(records_of(data)))

\* ---- inputs of the model
MaxRecs == 2

YearValues ==
    {JInt(2013), JInt(99), JStr(<<"2", "0", "1", "4">>),
     JStr(<<"2", "0", "x", "4">>), JFloat(2015, 5), JNull}

PopulationValues ==
    {JInt(5), JInt(0 - 5), JStr(<<" ", "7">>), JStr(<<"x">>), JNull}

RecSet == {NotADict} \cup
          {Rec(y, q) : y \in YearValues, q \in PopulationValues}

Responses ==
    {[shape |-> "dict_without_data"]} \cup
    {[shape |-> sh, items |-> items] :
        sh \in {"list", "dict"}, items \in SeqsUpTo(RecSet, MaxRecs)}

InitPop ==
    /\ api_resp \in Responses
    /\ p_pc = "start"
    /\ p_rows = <<>>
    /\ p_saved = <<>>

notPop == <<syncVars, downloadVars, raceVars, aggVars>>

\* lines 33-60
fetch ==
    /\ p_pc = "start"
    /\ \E status \in {200, 500} :
         IF raise_for_status(status)
         THEN p_pc' = "failed" /\ p_rows' = p_rows
         ELSE p_pc' = "fetched"
              /\ p_rows' = fetch_population_all_years(api_resp)
    /\ UNCHANGED <<api_resp, p_saved>>
    /\ UNCHANGED notPop

\* lambda_ingest/main.py lines 46-50 with save_to_s3 (lines 63-73)
save_to_s3 ==
    /\ p_pc = "fetched"
    /\ IF p_rows = <<>>
       THEN p_pc' = "done" /\ p_saved' = p_saved
       ELSE p_pc' = "saved" /\ p_saved' = p_rows
    /\ UNCHANGED <<api_resp, p_rows>>
    /\ UNCHANGED notPop

(***************************************************************************)
(* Claims about the ingest handler (Spec).                                 *)
(***************************************************************************)
\* sync has returned in this invocation
SyncReturned ==
    pc \in {"population", "done"} \/ (pc = "failed" /\ failedAt = "population")

\* the n-th file of this invocation has been through the loop body
Processed(n) == n \in 1..Len(files) /\ (n < idx \/ SyncReturned)

Matches(o, c) == o.exists /\ o.local_md5 = md5_bytes(c)

FromSync(o) == o.exists /\ o.local_md5 # None

\* C1: for every file sync has processed whose head_object answered, the
\* invocation made exactly one put_object for its key when, as the
\* invocation started, the key held no object whose local_md5 is the MD5 of
\* the remote bytes, and none when it did: a first run on an empty key puts
\* once, a run after it on unchanged bytes puts nothing.
C1_IdempotentSync ==
    \A n \in 1..Len(files) :
        (Processed(n) /\ files[n] \notin headErr) =>
            runPuts[files[n]] =
                IF Matches(startStore[files[n]], remote[files[n]]) THEN 0 ELSE 1

C1_Witness ==
    /\ pc = "done"
    /\ \E k \in Names :
         /\ "head" \in touched[k] /\ k \notin headErr
         /\ Matches(startStore[k], remote[k])
         /\ runPuts[k] = 0

\* C2: an object sync uploaded always carries the MD5 of its own body as
\* local_md5; and when the key held, as the invocation started, an object
\* uploaded by sync whose local_md5 differs from the MD5 of the remote bytes,
\* processing the file makes exactly one put_object, after which the key
\* holds the remote bytes with their MD5.
C2_ResyncAfterChange ==
    /\ \A k \in Names :
         FromSync(store[k]) => store[k].local_md5 = md5_bytes(store[k].body)
    /\ \A n \in 1..Len(files) :
         (/\ Processed(n)
          /\ FromSync(startStore[files[n]])
          /\ ~Matches(startStore[files[n]], remote[files[n]])) =>
              /\ runPuts[files[n]] = 1
              /\ store[files[n]] =
                     Object(remote[files[n]], md5_bytes(remote[files[n]]))

C2_Witness ==
    /\ pc = "done"
    /\ \E k \in Names :
         /\ FromSync(startStore[k])
         /\ ~Matches(startStore[k], remote[k])
         /\ runPuts[k] = 1
         /\ store[k].body = remote[k]

\* C10: when the download of the k-th file has failed, no head_object or
\* put_object was made for its key and no call at all for a later file,
\* their keys hold what they held as the invocation started, every earlier
\* file's key still holds what sync left there, and the population fetch
\* and save are not performed.
C10_BatchAbort ==
    /\ failedAt \in {"download", "md5"} =>
          /\ pc = "failed"
          /\ touched[files[idx]] = {"get"}
          /\ \A n \in idx + 1..Len(files) : touched[files[n]] = {}
          /\ \A n \in idx..Len(files) :
               store[files[n]] = startStore[files[n]]
          /\ \A n \in 1..idx - 1 :
               store[files[n]] =
                   IF runPuts[files[n]] = 0 THEN startStore[files[n]]
                   ELSE Object(remote[files[n]], md5_bytes(remote[files[n]]))
    /\ failedAt \in {"list", "download", "md5", "put"} => popOps = {}

C10_Witness ==
    /\ pc = "failed" /\ failedAt = "download"
    /\ idx = 2
    /\ runPuts[files[1]] = 1
    /\ store[files[1]] # startStore[files[1]]

(***************************************************************************)
(* Claims about download() (SpecDownload).                                 *)
(***************************************************************************)
Permanent(status) == status # 200 /\ status \notin Retryable

\* C3: once download has received a status that is neither 200 nor
\* retryable it has raised: it issues no further GET and does not return.
C3_PermanentFailsAtOnce ==
    \A status \in d_resp : Permanent(status) => d_pc = "raised"

GetAt == {n \in 1..Len(d_log) : d_log[n].op = "GET"}

\* the loop index of the pass that issued the GET at position n of the trace
Attempt(n) == Cardinality({m \in GetAt : m < n})

\* C4: download issues at most 6 GETs, one per pass, so it ends within 6
\* passes; a 200 is its last GET and makes it return the body; each GET
\* answered with a retryable status at attempt i is followed at once by a
\* sleep of 2^i seconds, and nothing else sleeps; and after 6 retryable
\* answers it has raised.
C4_BoundedRetry ==
    /\ Cardinality(GetAt) <= 6
    /\ d_pc = "loop" => Cardinality(GetAt) = d_i /\ d_i < 6
    /\ \A n \in GetAt :
         /\ d_log[n].status = 200 =>
                n = Len(d_log) /\ d_pc = "returned" /\ d_ret = "content"
         /\ d_log[n].status \in {403, 429, 500, 502, 503, 504} =>
                /\ n < Len(d_log)
                /\ d_log[n + 1] = [op |-> "sleep", secs |-> 2 ^ Attempt(n)]
    /\ \A n \in 1..Len(d_log) :
         d_log[n].op = "sleep" =>
             /\ n > 1 /\ d_log[n - 1].op = "GET"
             /\ d_log[n - 1].status \in {403, 429, 500, 502, 503, 504}
    /\ (/\ Cardinality(GetAt) = 6
        /\ \A n \in GetAt : d_log[n].status \in {403, 429, 500, 502, 503, 504})
           => d_pc = "raised"

C4_Witness ==
    /\ d_pc = "raised"
    /\ Len(d_log) = 12
    /\ d_log[12] = [op |-> "sleep", secs |-> 32]

(***************************************************************************)
(* Claims about concurrent invocations (SpecRace).                         *)
(***************************************************************************)
\* C9: with two invocations interleaved at will on unchanged bytes C, no
\* invocation makes more than one put_object for the key, and the object at
\* the key, when there is one, has body C and local_md5 = md5(C); the
\* witness is the interleaving in which both invocations upload.
C9_BenignRace ==
    /\ \A p \in Procs : r_puts[p] <= 1
    /\ r_store.exists =>
           /\ r_store.body = r_remote
           /\ r_store.local_md5 = md5_bytes(r_remote)

C9_Witness ==
    /\ \A p \in Procs : r_puts[p] = 1 /\ r_pc[p] = "done"
    /\ r_store.exists

(***************************************************************************)
(* Claims about the analytics functions (SpecBest, SpecStats, SpecJoin).   *)
(***************************************************************************)
RECURSIVE SetSum(_, _)
SetSum(f, S) ==
    IF S = {} THEN 0
    ELSE LET x == CHOOSE y \in S : TRUE IN f[x] + SetSum(f, S \ {x})

Min(S) == CHOOSE x \in S : \A y \in S : x <= y

\* positions of the rows of a series and year whose period starts with Q
QRows(sid, year) ==
    {n \in 1..Len(bls_rows) :
        /\ bls_rows[n].series_id = sid
        /\ bls_rows[n].year = year
        /\ bls_rows[n].period # <<>>
        /\ bls_rows[n].period[1] = "Q"}

QSum(sid, year) ==
    SetSum([n \in 1..Len(bls_rows) |-> bls_rows[n].value], QRows(sid, year))

RowYears == {bls_rows[n].year : n \in 1..Len(bls_rows)}
RowSeries == {bls_rows[n].series_id : n \in 1..Len(bls_rows)}

\* C5: the result has an entry for exactly the series with a Q-period row;
\* the entry's year has a Q-period row of the series and its total is the
\* sum of the values of those rows; no year of the series has a larger
\* Q-sum; and a year with the same Q-sum first appears later in the rows.
C5_BestYears ==
    a_pc = "done" =>
        /\ DOMAIN a_best =
               {sid \in RowSeries : \E y \in RowYears : QRows(sid, y) # {}}
        /\ \A sid \in DOMAIN a_best :
             LET year == a_best[sid][1]
                 total == a_best[sid][2]
             IN /\ QRows(sid, year) # {}
                /\ total = QSum(sid, year)
                /\ \A y \in RowYears :
                     QRows(sid, y) # {} =>
                         /\ QSum(sid, y) <= total
                         /\ (QSum(sid, y) = total /\ y # year) =>
                                Min(QRows(sid, year)) < Min(QRows(sid, y))

\* two years of one series tie on the maximal total, and a non-Q row exists
C5_Witness ==
    /\ a_pc = "done"
    /\ \E sid \in DOMAIN a_best, y \in RowYears :
         /\ y # a_best[sid][1]
         /\ QRows(sid, y) # {}
         /\ QSum(sid, y) = a_best[sid][2]
    /\ \E n \in 1..Len(bls_rows) : bls_rows[n].period = A01

WindowYears == {y \in DOMAIN pop_by_year : 2013 <= y /\ y <= 2018}

\* C6: the result is (None, None) exactly when fewer than 2 of the years
\* 2013..2018 are keys of the map; otherwise, with N the number of those
\* keys, S the sum of their populations and Q the sum of their squares, the
\* mean is S/N and the squared standard deviation is (N*Q - S*S)/N^2, the
\* sum of squared deviations over N.
C6_PopulationStats ==
    a_pc = "done" =>
        LET N == Cardinality(WindowYears)
            S == SetSum(pop_by_year, WindowYears)
            Q == SetSum([y \in WindowYears |-> pop_by_year[y] ^ 2],
                        WindowYears)
        IN IF N < 2
           THEN a_stats.mean.none /\ a_stats.std_squared.none
           ELSE /\ ~a_stats.mean.none /\ ~a_stats.std_squared.none
                /\ a_stats.mean.num * N = S * a_stats.mean.den
                /\ a_stats.std_squared.num * N * N =
                       (N * Q - S * S) * a_stats.std_squared.den

\* a window year is missing, years outside the window are present, and the
\* populations of the window differ
C6_Witness ==
    /\ a_pc = "done"
    /\ ~a_stats.mean.none
    /\ a_stats.std_squared.num > 0
    /\ 2012 \in DOMAIN pop_by_year /\ 2019 \in DOMAIN pop_by_year
    /\ 2015 \notin DOMAIN pop_by_year
    /\ pop_by_year[2012] # pop_by_year[2013]

Matching ==
    {n \in 1..Len(bls_rows) :
        /\ bls_rows[n].series_id = "PRS30006032"
        /\ bls_rows[n].period = <<"Q", "0", "1">>}

\* the position in the rows of the j-th matching row
NthMatching(j) ==
    CHOOSE n \in Matching : Cardinality({m \in Matching : m <= n}) = j

\* C7: the output has one row per input row of series PRS30006032 and
\* period Q01, in the order of the input, duplicates kept; each carries the
\* input row's year and value and the population of that year, or None
\* when the map has no such year.
C7_FilteredJoin ==
    a_pc = "done" =>
        /\ Len(a_joined) = Cardinality(Matching)
        /\ \A j \in 1..Len(a_joined) :
             LET row == bls_rows[NthMatching(j)]
             IN /\ a_joined[j].series_id = "PRS30006032"
                /\ a_joined[j].period = <<"Q", "0", "1">>
                /\ a_joined[j].year = row.year
                /\ a_joined[j].value = row.value
                /\ a_joined[j].Population =
                       IF row.year \in DOMAIN pop_by_year
                       THEN [none |-> FALSE, v |-> pop_by_year[row.year]]
                       ELSE [none |-> TRUE]

\* a duplicated year, one row mapped and none for another
C7_Witness ==
    /\ a_pc = "done"
    /\ Len(a_joined) = 2
    /\ a_joined[1] = a_joined[2]
    /\ a_joined[1].Population.none
    /\ DOMAIN pop_by_year # {}

(***************************************************************************)
(* Claims about the population fetcher (SpecPop).                          *)
(***************************************************************************)
Returned == p_pc \in {"fetched", "done", "saved"}

SortedByYear(rows) ==
    \A m, n \in 1..Len(rows) : m < n => rows[m].year <= rows[n].year

\* C8 as stated: every returned and every persisted record has a 4-digit
\* year and a non-negative population, and the list is sorted by year.
C8_FourDigitNonNegative ==
    Returned =>
        /\ \A n \in 1..Len(p_rows) :
             /\ 1000 <= p_rows[n].year /\ p_rows[n].year <= 9999
             /\ p_rows[n].population >= 0
        /\ SortedByYear(p_rows)
        /\ p_pc = "saved" => p_saved = p_rows

Upstream == IF api_resp.shape = "dict_without_data" THEN <<>> ELSE api_resp.items

\* a JSON value int() accepts: a number, or a string of digits with an
\* optional sign and blanks around it
Coercible(j) ==
    \/ j.t \in {"int", "float"}
    \/ /\ j.t = "str"
       /\ \E a, b \in 1..Len(j.chars) :
            /\ a <= b
            /\ \A n \in 1..Len(j.chars) :
                 (n < a \/ n > b) => j.chars[n] = " "
            /\ \A n \in a + 1..b : j.chars[n] \in DigitChars
            /\ j.chars[a] \in DigitChars \cup
                   (IF a < b THEN {"+", "-"} ELSE {})

Usable == {n \in 1..Len(Upstream) :
              /\ Upstream[n].dict
              /\ Coercible(Upstream[n].Year)
              /\ Coercible(Upstream[n].Population)}

\* C8 amended: every returned record is the coercion of an upstream record
\* whose Year and Population int() accepts, its year and population
\* integers of any size and sign; there are as many returned records as
\* such upstream records, the others being dropped; the list is sorted
\* ascending by year; and what is persisted is the returned list.
C8_CoercedAndSorted ==
    Returned =>
        /\ Len(p_rows) = Cardinality(Usable)
        /\ \A n \in 1..Len(p_rows) :
             /\ p_rows[n].year \in Int /\ p_rows[n].population \in Int
             /\ \E u \in Usable :
                  /\ p_rows[n].year = int(Upstream[u].Year).v
                  /\ p_rows[n].population = int(Upstream[u].Population).v
        /\ SortedByYear(p_rows)
        /\ p_pc = "saved" => p_saved = p_rows

\* two usable records arrive in descending year order, beside a dropped one
C8_Witness ==
    /\ p_pc = "saved"
    /\ Len(p_saved) = 2
    /\ Len(Upstream) = 2
    /\ Upstream[1].Year = JStr(<<"2", "0", "1", "4">>)
    /\ p_saved[1].year = 2013 /\ p_saved[2].year = 2014

Init == InitSync /\ IdleDownload /\ IdleRace /\ IdleAgg /\ IdlePop

Next ==
    \/ Invoke
    \/ download
    \/ head_object
    \/ upload
    \/ population
    \/ Return
    \/ ChangeRemote

Spec == Init /\ [][Next]_vars

InitD == IdleSync /\ InitDownload /\ IdleRace /\ IdleAgg /\ IdlePop

NextD == download_pass

SpecDownload == InitD /\ [][NextD]_vars

InitR == IdleSync /\ IdleDownload /\ InitRace /\ IdleAgg /\ IdlePop

NextR == \E p \in Procs : r_download(p) \/ r_head_object(p) \/ r_upload(p)

SpecRace == InitR /\ [][NextR]_vars

InitB ==
    /\ IdleSync /\ IdleDownload /\ IdleRace /\ IdlePop
    /\ InitAgg(SeqsUpTo(BestRowSet, MaxRows), {<<>>})

NextB == best_years

SpecBest == InitB /\ [][NextB]_vars

InitS ==
    /\ IdleSync /\ IdleDownload /\ IdleRace /\ IdlePop
    /\ InitAgg({<<>>}, PartialMaps(WindowStart - 1..WindowStop, 1..MaxPop))

NextS == population_stats

SpecStats == InitS /\ [][NextS]_vars

InitJ ==
    /\ IdleSync /\ IdleDownload /\ IdleRace /\ IdlePop
    /\ InitAgg(SeqsUpTo(JoinRowSet, MaxJoinRows),
               PartialMaps({2015, 2016}, 1..MaxPop))

NextJ == prs30006032_q01

SpecJoin == InitJ /\ [][NextJ]_vars

InitP == IdleSync /\ IdleDownload /\ IdleRace /\ IdleAgg /\ InitPop

NextP == fetch \/ save_to_s3

SpecPop == InitP /\ [][NextP]_vars

====
